---------------------------- MODULE Spec2Model ----------------------------
(***************************************************************************)
(* A model of the ELK-BLEDOM controller driver (src/src/device.rs):        *)
(*   - the command layer of BledomDevice: the eleven public command        *)
(*     operations, their field validation, the 9-byte frames they build    *)
(*     and send_command_bytes (shape check, transport write, settle        *)
(*     delay);                                                             *)
(*   - the acquisition pipeline BledomDeviceBuilder::build: adapter,       *)
(*     scan loop, stop_scan, connect loop, service resolution.             *)
(* Spec is the command layer on a Ready handle, BuildSpec the pipeline.    *)
(***************************************************************************)
EXTENDS Integers, Sequences, FiniteSets, TLC

VARIABLES
    \* ---- command layer (BledomDevice) ----
    cpc,          \* position of the caller: "idle", "write", "settle", "returned"
    call,         \* the operation in progress and its arguments
    frame,        \* the byte array handed to send_command_bytes
    cresult,      \* what the operation returned: "none", "Ok", "InvalidParameter", ...
    shapeRejected,\* the shape check of send_command_bytes rejected the frame
    callWrites,   \* transport writes issued by the call in progress
    callSlept,    \* milliseconds of settle delay taken by the call in progress
    wire,         \* the bytes the transport write of this call received
    prevWire,     \* the bytes the preceding identical call wrote (<<>> if none)
    \* ---- acquisition (BledomDeviceBuilder::build) ----
    scan_retries, connection_retries,
    bpc,          \* position inside build
    find_count, connect_count,
    light,        \* None (0) or the position of the located peripheral in the list
    seen,         \* the list central.peripherals() returned to the last find_light
    scanPos,      \* the position of find_light's for loop in that list (0: not in the loop)
    pending,      \* the error a failed scan attempt is about to return
    bresult,      \* "none", "Ready" or the error kind build returned
    errText,      \* the transport error text carried by the returned error
    handle,       \* the BledomDevice built: peripheral and characteristic
    \* ---- observations of the transport (history) ----
    nAdapters, nStartScan, nScan, nScanWaits, nStopScan, nConnect, nConnWaits,
    nDiscover,
    prev,         \* the last transport call or timer wait made
    firstVisible, \* the scan poll at which a matching peripheral first was listed (0: never)
    scanErrAt,    \* the scan poll that failed with an error other than DeviceNotFound (0: none)
    stopFailed,   \* a stop_scan call returned an error
    envFailed,    \* some transport call other than a scan poll's "not found" failed
    lastConnErr,  \* the error of the last failed connect attempt
    prevConnErr,  \* the error of the failed connect attempt before that one
    connectedTo,  \* the peripheral whose connect() returned Ok (None: no connect succeeded)
    discOn,       \* the peripheral discover_services() was called on (None: not called)
    discAnswer,   \* what discovery answered: "none", "err", "nochar" (no 0xFFF3), "char"
    noAdapter,    \* manager.adapters() answered an empty list
    \* ---- two callers sharing one handle ----
    tpc,          \* each caller's position: "idle", "write", "settle"
    tframe,       \* the frame each caller's call in progress sends
    tcalls,       \* the calls each caller has begun
    log           \* the writes issued and settle delays completed on the handle, in order

cmdVars == <<cpc, call, frame, cresult, shapeRejected, callWrites, callSlept,
             wire, prevWire>>
buildVars == <<scan_retries, connection_retries, bpc, find_count, connect_count,
               light, seen, scanPos, pending, bresult, errText, handle>>
histVars == <<nAdapters, nStartScan, nScan, nScanWaits, nStopScan, nConnect,
              nConnWaits, nDiscover, prev, firstVisible, scanErrAt, stopFailed,
              envFailed, lastConnErr, prevConnErr, connectedTo, discOn,
              discAnswer, noAdapter>>
concVars == <<tpc, tframe, tcalls, log>>
vars == <<cmdVars, buildVars, histVars, concVars>>

(***************************************************************************)
(* Bounds of the model.                                                    *)
(***************************************************************************)
\* Argument samples lie within Spread of 0, of 255 and of each range limit.
Spread == 1
\* Retry budgets 0..MaxRetry are explored besides the default and the u8 maximum.
MaxRetry == 3
\* Peripherals listed by one scan poll.
MaxPeripherals == 2
\* Characteristics a discovery reports.
MaxChars == 2
\* Calls each of the two callers makes on a shared handle.
MaxCalls == 2

(***************************************************************************)
(* Program constants.                                                      *)
(***************************************************************************)
U8Max == 255
U8 == 0..U8Max
FRAME_START == 126            \* 0x7e
FRAME_END == 239              \* 0xef
FRAME_LEN == 9
LIGHT_CHARACTERISTIC_UUID == 65523      \* 0xFFF3
CMD_DELAY == 100
WEEK_DAYS_all == 1 + 2 + 4 + 8 + 16 + 32 + 64
DefaultScanRetries == 10
DefaultConnectionRetries == 10
None == 0

\* The tasks that hold a reference to one BledomDevice.
Callers == {1, 2}

Near(b) == {x \in U8 : x >= b - Spread /\ x <= b + Spread}
Edge == Near(0) \cup Near(U8Max)

\* No scan attempt has returned an error.
NoError == [tag |-> "none", text |-> "none"]

\* u8 addition: on overflow a checked build panics and an unchecked one wraps.
AddU8(a, b) ==
    IF a + b <= U8Max
    THEN {[panic |-> FALSE, v |-> a + b]}
    ELSE {[panic |-> FALSE, v |-> (a + b) % (U8Max + 1)], [panic |-> TRUE, v |-> 0]}

(***************************************************************************)
(* Command Codec: what each public operation does before it sends.         *)
(* An operation yields the set of its possible outcomes: a rejection, a    *)
(* frame to send, or a panic.                                              *)
(***************************************************************************)
Reject == [tag |-> "InvalidParameter", data |-> <<>>]
Send(data) == [tag |-> "send", data |-> data]
Panicked == [tag |-> "Panic", data |-> <<>>]

power_on == {Send(<<126, 0, 4, 240, 0, 1, 255, 0, 239>>)}

power_off == {Send(<<126, 0, 4, 0, 0, 0, 255, 0, 239>>)}

\* A variant of set_brightness whose bound check is off by one (value >= 0x64).
set_brightness_strict(value) ==
    IF value >= 100 THEN {Reject}
    ELSE {Send(<<126, 0, 1, value, 0, 0, 0, 0, 239>>)}

set_brightness(value) ==
    IF value > 100 THEN {Reject}
    ELSE {Send(<<126, 0, 1, value, 0, 0, 0, 0, 239>>)}

\* hour, minute, second, day_of_week are read from the local clock
sync_time(hour, minute, second, day_of_week) ==
    {Send(<<126, 0, 131, hour, minute, second, day_of_week, 0, 239>>)}

\* A variant of set_custom_time that checks only the upper limit of day_of_week.
set_custom_time_day0(hour, minute, second, day_of_week) ==
    IF hour > 23 THEN {Reject}
    ELSE IF minute > 59 THEN {Reject}
    ELSE IF second > 59 THEN {Reject}
    ELSE IF day_of_week > 7 THEN {Reject}
    ELSE {Send(<<126, 0, 131, hour, minute, second, day_of_week, 0, 239>>)}

set_custom_time(hour, minute, second, day_of_week) ==
    IF hour > 23 THEN {Reject}
    ELSE IF minute > 59 THEN {Reject}
    ELSE IF second > 59 THEN {Reject}
    ELSE IF ~(day_of_week >= 1 /\ day_of_week <= 7) THEN {Reject}
    ELSE {Send(<<126, 0, 131, hour, minute, second, day_of_week, 0, 239>>)}

\* A variant of set_color that puts green before red.
set_color_swapped(red_value, green_value, blue_value) ==
    {Send(<<126, 0, 5, 3, green_value, red_value, blue_value, 0, 239>>)}

set_color(red_value, green_value, blue_value) ==
    {Send(<<126, 0, 5, 3, red_value, green_value, blue_value, 0, 239>>)}

set_effect(value) == {Send(<<126, 0, 3, value, 3, 0, 0, 0, 239>>)}

set_effect_speed(value) ==
    IF value > 100 THEN {Reject}
    ELSE {Send(<<126, 0, 2, value, 0, 0, 0, 0, 239>>)}

\* A variant of set_schedule_on that does not check the days bitmask.
set_schedule_on_anydays(days, hours, minutes, enabled) ==
    IF hours > 23 THEN {Reject}
    ELSE IF minutes > 59 THEN {Reject}
    ELSE {IF value.panic THEN Panicked
          ELSE Send(<<126, 0, 130, hours, minutes, 0, 0, value.v, 239>>)
            : value \in (IF enabled THEN AddU8(days, 128)
                         ELSE {[panic |-> FALSE, v |-> days]})}

set_schedule_on(days, hours, minutes, enabled) ==
    IF days > WEEK_DAYS_all THEN {Reject}
    ELSE IF hours > 23 THEN {Reject}
    ELSE IF minutes > 59 THEN {Reject}
    ELSE {IF value.panic THEN Panicked
          ELSE Send(<<126, 0, 130, hours, minutes, 0, 0, value.v, 239>>)
            : value \in (IF enabled THEN AddU8(days, 128)
                         ELSE {[panic |-> FALSE, v |-> days]})}

set_schedule_off(days, hours, minutes, enabled) ==
    IF days > WEEK_DAYS_all THEN {Reject}
    ELSE IF hours > 23 THEN {Reject}
    ELSE IF minutes > 59 THEN {Reject}
    ELSE {IF value.panic THEN Panicked
          ELSE Send(<<126, 0, 130, hours, minutes, 0, 1, value.v, 239>>)
            : value \in (IF enabled THEN AddU8(days, 128)
                         ELSE {[panic |-> FALSE, v |-> days]})}

\* A variant of generic_command that leaves out the reserved byte before the end marker.
generic_command_short(id, sub_id, arg1, arg2, arg3) ==
    {Send(<<126, 0, id, sub_id, arg1, arg2, arg3, 239>>)}

generic_command(id, sub_id, arg1, arg2, arg3) ==
    {Send(<<126, 0, id, sub_id, arg1, arg2, arg3, 0, 239>>)}

\* The shape check at the head of send_command_bytes.
Malformed(data) ==
    Len(data) # FRAME_LEN \/ data[1] # FRAME_START \/ data[FRAME_LEN] # FRAME_END

(***************************************************************************)
(* The calls a caller can make, with arguments drawn near the limits of    *)
(* each field; single-byte operations take every u8.                       *)
(***************************************************************************)
Hours == Edge \cup Near(23)
Minutes == Edge \cup Near(59)
WeekDays == Edge \cup Near(1) \cup Near(7)
DayMasks == Edge \cup Near(WEEK_DAYS_all) \cup {1}
Opcodes == Edge \cup {FRAME_START, FRAME_END}

Calls ==
    [op : {"power_on", "power_off", "sync_time"}]
    \cup [op : {"set_brightness", "set_effect", "set_effect_speed"}, value : U8]
    \cup [op : {"set_custom_time"}, hour : Hours, minute : Minutes,
          second : Minutes, day_of_week : WeekDays]
    \cup [op : {"set_color"}, red : Edge, green : Edge, blue : Edge]
    \cup [op : {"set_schedule_on", "set_schedule_off"}, days : DayMasks,
          hours : Hours, minutes : Minutes, enabled : BOOLEAN]
    \cup [op : {"generic_command"}, id : Opcodes, sub_id : Opcodes,
          arg1 : Edge, arg2 : Edge, arg3 : Edge]

\* What chrono::offset::Local::now() can read: hour, minute, second, weekday from Monday.
ClockReadings ==
    [hour : {0, 23}, minute : {0, 59}, second : {0, 59}, day_of_week : {1, 7}]

\* Only sync_time reads the clock.
ReadClock(c) ==
    IF c.op = "sync_time" THEN ClockReadings
    ELSE {[hour |-> 0, minute |-> 0, second |-> 0, day_of_week |-> 1]}

NoCall == [op |-> "none"]

\* The outcomes of the public operation c when the clock reads now.
Outcomes(c, now) ==
    CASE c.op = "power_on" -> power_on
      [] c.op = "power_off" -> power_off
      [] c.op = "set_brightness" -> set_brightness(c.value)
      [] c.op = "sync_time" ->
            sync_time(now.hour, now.minute, now.second, now.day_of_week)
      [] c.op = "set_custom_time" ->
            set_custom_time(c.hour, c.minute, c.second, c.day_of_week)
      [] c.op = "set_color" -> set_color(c.red, c.green, c.blue)
      [] c.op = "set_effect" -> set_effect(c.value)
      [] c.op = "set_effect_speed" -> set_effect_speed(c.value)
      [] c.op = "set_schedule_on" ->
            set_schedule_on(c.days, c.hours, c.minutes, c.enabled)
      [] c.op = "set_schedule_off" ->
            set_schedule_off(c.days, c.hours, c.minutes, c.enabled)
      [] c.op = "generic_command" ->
            generic_command(c.id, c.sub_id, c.arg1, c.arg2, c.arg3)

(***************************************************************************)
(* Command layer actions.                                                  *)
(***************************************************************************)
\* A caller holding a Ready handle calls a public operation: the operation
\* validates its fields and builds its frame, and send_command_bytes checks
\* the frame's shape.  A caller whose call has returned may repeat it.
Invoke ==
    /\ bresult = "Ready"
    /\ cpc \in {"idle", "returned"}
    /\ \E c \in (IF cpc = "idle" THEN Calls ELSE {call}) :
         \E now \in ReadClock(c) : \E out \in Outcomes(c, now) :
            /\ call' = c
            /\ frame' = out.data
            /\ prevWire' = IF cpc = "returned" THEN wire ELSE <<>>
            /\ wire' = <<>>
            /\ callWrites' = 0
            /\ callSlept' = 0
            /\ IF out.tag # "send"
               THEN /\ cpc' = "returned"
                    /\ cresult' = out.tag
                    /\ shapeRejected' = FALSE
               ELSE IF Malformed(out.data)
               THEN /\ cpc' = "returned"
                    /\ cresult' = "InvalidParameter"
                    /\ shapeRejected' = TRUE
               ELSE /\ cpc' = "write"
                    /\ cresult' = "none"
                    /\ shapeRejected' = FALSE
    /\ UNCHANGED <<buildVars, histVars, concVars>>

\* A variant of the write that tries again after a transport error.
Write_retry ==
    /\ cpc = "write"
    /\ callWrites' = callWrites + 1
    /\ \E ok \in BOOLEAN :
         IF ok
         THEN /\ wire' = frame
              /\ cpc' = "settle"
              /\ cresult' = "none"
         ELSE /\ wire' = <<>>
              /\ cpc' = "write"
              /\ cresult' = "none"
    /\ UNCHANGED <<call, frame, shapeRejected, callSlept, prevWire,
                   buildVars, histVars, concVars>>

\* peripheral.write(characteristic, data, WithoutResponse): it succeeds or fails.
Write ==
    /\ cpc = "write"
    /\ callWrites' = callWrites + 1
    /\ \E ok \in BOOLEAN :
         IF ok
         THEN /\ wire' = frame
              /\ cpc' = "settle"
              /\ cresult' = "none"
         ELSE /\ wire' = <<>>
              /\ cpc' = "returned"
              /\ cresult' = "TransportError"
    /\ UNCHANGED <<call, frame, shapeRejected, callSlept, prevWire,
                   buildVars, histVars, concVars>>

\* time::sleep(CMD_DELAY), then Ok(()).
Settle ==
    /\ cpc = "settle"
    /\ callSlept' = callSlept + CMD_DELAY
    /\ cpc' = "returned"
    /\ cresult' = "Ok"
    /\ UNCHANGED <<call, frame, shapeRejected, callWrites, wire, prevWire,
                   buildVars, histVars, concVars>>

\* The caller takes the result; the frame, a temporary of the call, is dropped.
Return ==
    /\ cpc = "returned"
    /\ cpc' = "idle"
    /\ call' = NoCall
    /\ frame' = <<>>
    /\ cresult' = "none"
    /\ shapeRejected' = FALSE
    /\ callWrites' = 0
    /\ callSlept' = 0
    /\ wire' = <<>>
    /\ prevWire' = <<>>
    /\ UNCHANGED <<buildVars, histVars, concVars>>

CmdIdle ==
    /\ cpc = "idle"
    /\ call = NoCall
    /\ frame = <<>>
    /\ cresult = "none"
    /\ shapeRejected = FALSE
    /\ callWrites = 0
    /\ callSlept = 0
    /\ wire = <<>>
    /\ prevWire = <<>>

\* No caller has begun a call on the shared handle.
ConcIdle ==
    /\ tpc = [c \in Callers |-> "idle"]
    /\ tframe = [c \in Callers |-> <<>>]
    /\ tcalls = [c \in Callers |-> 0]
    /\ log = <<>>

HistInit ==
    /\ nAdapters = 0 /\ nStartScan = 0 /\ nScan = 0 /\ nScanWaits = 0
    /\ nStopScan = 0 /\ nConnect = 0 /\ nConnWaits = 0 /\ nDiscover = 0
    /\ prev = "none" /\ firstVisible = 0 /\ scanErrAt = 0
    /\ stopFailed = FALSE /\ envFailed = FALSE /\ lastConnErr = "none"
    /\ prevConnErr = "none" /\ connectedTo = None /\ discOn = None
    /\ discAnswer = "none" /\ noAdapter = FALSE

\* A handle as build returns it with the default configuration, the light
\* found by the first poll and connected by the first attempt.
Init ==
    /\ CmdIdle
    /\ scan_retries = DefaultScanRetries
    /\ connection_retries = DefaultConnectionRetries
    /\ bpc = "done"
    /\ find_count = 1
    /\ connect_count = 0
    /\ light = 1
    /\ seen = <<>>
    /\ scanPos = 0
    /\ pending = NoError
    /\ bresult = "Ready"
    /\ errText = "none"
    /\ handle = [peripheral |-> 1, characteristic |-> LIGHT_CHARACTERISTIC_UUID]
    /\ nAdapters = 1 /\ nStartScan = 1 /\ nScan = 1 /\ nScanWaits = 1
    /\ nStopScan = 1 /\ nConnect = 1 /\ nConnWaits = 0 /\ nDiscover = 1
    /\ prev = "discover_services" /\ firstVisible = 1 /\ scanErrAt = 0
    /\ stopFailed = FALSE /\ envFailed = FALSE /\ lastConnErr = "none"
    /\ prevConnErr = "none" /\ connectedTo = 1 /\ discOn = 1
    /\ discAnswer = "char" /\ noAdapter = FALSE
    /\ ConcIdle

Next == Invoke \/ Write \/ Settle \/ Return

Spec == Init /\ [][Next]_vars

(***************************************************************************)
(* Two callers on one BledomDevice.  The operations take &self and the     *)
(* struct holds no lock, so each caller runs send_command_bytes on its     *)
(* own: the write, then the settle delay.                                  *)
(***************************************************************************)
\* The frames the callers send: power_on and power_off.
ConcFrames == {out.data : out \in power_on \cup power_off}

\* A caller calls power_on or power_off; the frame passes the shape check.
CInvoke(c) ==
    /\ tpc[c] = "idle"
    /\ tcalls[c] < MaxCalls
    /\ \E f \in ConcFrames :
         /\ ~Malformed(f)
         /\ tframe' = [tframe EXCEPT ![c] = f]
    /\ tpc' = [tpc EXCEPT ![c] = "write"]
    /\ tcalls' = [tcalls EXCEPT ![c] = @ + 1]
    /\ UNCHANGED <<log, cmdVars, buildVars, histVars>>

\* A variant of the write that returns Ok without the settle delay.
CWrite_nosettle(c) ==
    /\ tpc[c] = "write"
    /\ \E ok \in BOOLEAN :
         /\ log' = IF ok THEN Append(log, [ev |-> "write", by |-> c, data |-> tframe[c]])
                   ELSE log
         /\ tpc' = [tpc EXCEPT ![c] = "idle"]
    /\ UNCHANGED <<tframe, tcalls, cmdVars, buildVars, histVars>>

\* peripheral.write(..).await?: a success goes on to the settle delay, an
\* error returns.
CWrite(c) ==
    /\ tpc[c] = "write"
    /\ \E ok \in BOOLEAN :
         IF ok
         THEN /\ log' = Append(log, [ev |-> "write", by |-> c, data |-> tframe[c]])
              /\ tpc' = [tpc EXCEPT ![c] = "settle"]
         ELSE /\ log' = log
              /\ tpc' = [tpc EXCEPT ![c] = "idle"]
    /\ UNCHANGED <<tframe, tcalls, cmdVars, buildVars, histVars>>

\* time::sleep(CMD_DELAY) completes and the call returns Ok(()).
CSettle(c) ==
    /\ tpc[c] = "settle"
    /\ log' = Append(log, [ev |-> "settled", by |-> c, data |-> <<>>])
    /\ tpc' = [tpc EXCEPT ![c] = "idle"]
    /\ UNCHANGED <<tframe, tcalls, cmdVars, buildVars, histVars>>

ConcNext == \E c \in Callers : CInvoke(c) \/ CWrite(c) \/ CSettle(c)

\* The callers share the handle that Init describes.
ConcSpec == Init /\ [][ConcNext]_vars


(***************************************************************************)
(* Device Locator: find_light over the list central.peripherals() gives.   *)
(* A peripheral is what properties() answers for it: an error, no          *)
(* properties, or properties with an optional advertised name.  Names are  *)
(* sequences of character codes; the Option local_name is a sequence of    *)
(* zero or one name.                                                       *)
(***************************************************************************)
ELK_BLEDOM == <<69, 76, 75, 45, 66, 76, 69, 68, 79, 77>>     \* "ELK-BLEDOM"

\* str::contains
Contains(name, pat) ==
    \E i \in 0..(Len(name) - Len(pat)) : SubSeq(name, i + 1, i + Len(pat)) = pat

Names ==
    { ELK_BLEDOM,                                              \* "ELK-BLEDOM"
      <<88>> \o ELK_BLEDOM \o <<49>>,                          \* "XELK-BLEDOM1"
      <<69, 76, 75, 45, 66, 76, 69, 68, 79>>,                  \* "ELK-BLEDO"
      <<101, 108, 107, 45, 98, 108, 101, 100, 111, 109>> }     \* "elk-bledom"

Peripherals ==
    { [props |-> "err", local_name |-> <<>>],
      [props |-> "none", local_name |-> <<>>],
      [props |-> "some", local_name |-> <<>>] }
    \cup { [props |-> "some", local_name |-> <<n>>] : n \in Names }

PeripheralLists == UNION { [1..n -> Peripherals] : n \in 0..MaxPeripherals }

\* The closure find_light applies to a peripheral's properties.
NameMatches(p) ==
    \E k \in 1..Len(p.local_name) : Contains(p.local_name[k], ELK_BLEDOM)

\* The body of find_light's for loop at position i, after p.properties()
\* answered: a return with `?`, a return of the match, or the next iteration.
VisitPeripheral(ps, i) ==
    IF ps[i].props = "err"
    THEN [tag |-> "BluetoothManagerError", text |-> "err", p |-> None]
    ELSE IF ps[i].props = "none"
    THEN [tag |-> "Other", text |-> "Peripheral properties not available",
          p |-> None]
    ELSE IF NameMatches(ps[i]) THEN [tag |-> "Ok", text |-> "none", p |-> i]
    ELSE [tag |-> "next", text |-> "none", p |-> None]

\* The for loop from position i on, to its return.
RECURSIVE FindFrom(_, _)
FindFrom(ps, i) ==
    IF i > Len(ps) THEN [tag |-> "DeviceNotFound", text |-> "none", p |-> None]
    ELSE IF VisitPeripheral(ps, i).tag = "next" THEN FindFrom(ps, i + 1)
    ELSE VisitPeripheral(ps, i)

\* resp is what central.peripherals() answers: an error or a list.
find_light(resp) ==
    IF ~resp.ok THEN [tag |-> "BluetoothManagerError", text |-> "err", p |-> None]
    ELSE FindFrom(resp.list, 1)

ScanResponses ==
    {[ok |-> FALSE, list |-> <<>>]} \cup {[ok |-> TRUE, list |-> l] : l \in PeripheralLists}

\* A matching peripheral is in the list the transport gives.
Visible(resp) ==
    resp.ok /\ \E i \in 1..Len(resp.list) :
                  resp.list[i].props = "some" /\ NameMatches(resp.list[i])

(***************************************************************************)
(* Service Resolver: the characteristics a discovery reports, by UUID.     *)
(***************************************************************************)
Uuids == {LIGHT_CHARACTERISTIC_UUID, LIGHT_CHARACTERISTIC_UUID + 1}
CharLists == UNION { [1..n -> Uuids] : n \in 0..MaxChars }

\* A variant of the search that takes the first characteristic reported, whatever its UUID.
FindChar_first(chars) == IF Len(chars) > 0 THEN 1 ELSE None

\* chars.iter().find(|c| c.uuid == LIGHT_CHARACTERISTIC_UUID): the position, or None
FindChar(chars) ==
    IF \E i \in 1..Len(chars) : chars[i] = LIGHT_CHARACTERISTIC_UUID
    THEN CHOOSE i \in 1..Len(chars) :
            /\ chars[i] = LIGHT_CHARACTERISTIC_UUID
            /\ \A j \in 1..(i - 1) : chars[j] # LIGHT_CHARACTERISTIC_UUID
    ELSE None

(***************************************************************************)
(* BledomDeviceBuilder::build, one action per awaited transport call or    *)
(* timer wait.                                                             *)
(***************************************************************************)
RetryValues == (0..MaxRetry) \cup {DefaultScanRetries, DefaultConnectionRetries, U8Max}
Configs == {c \in RetryValues \X RetryValues : c[1] < U8Max \/ c[2] < U8Max}
ConnErrors == {"e1", "e2"}
NoHandle == [peripheral |-> None, characteristic |-> None]

\* A variant of the loop head whose budget check is off by one (find_count > scan_retries).
ScanLoopHead_late(l, fc) ==
    IF l # None THEN "stop_scan"
    ELSE IF fc > scan_retries THEN "stop_exhausted"
    ELSE "find_light"

\* A variant of the loop head that spends the whole budget before it looks at light.
ScanLoopHead_polling(l, fc) ==
    IF fc < scan_retries THEN "find_light"
    ELSE IF l # None THEN "stop_scan"
    ELSE "stop_exhausted"

\* The head of the scan loop: `while light.is_none()`, then the budget check.
ScanLoopHead(l, fc) ==
    IF l # None THEN "stop_scan"
    ELSE IF fc >= scan_retries THEN "stop_exhausted"
    ELSE "find_light"

\* A variant of the match that retries after every error (Err(_) => {}).
ScanArm_retry(tag) == IF tag = "Ok" THEN "found" ELSE "retry"

\* The arms of the match on find_light's result.
ScanArm(tag) ==
    IF tag = "Ok" THEN "found"
    ELSE IF tag = "DeviceNotFound" THEN "retry"
    ELSE "abort"

\* A variant of the budget check that is off by one (connect_count > connection_retries).
ConnectExhausted_late(cc) == cc > connection_retries

\* A variant in which the scan attempts made are charged to the connect budget.
ConnectExhausted_shared(cc) == cc + find_count >= connection_retries

\* The budget check of the connect loop, after connect_count += 1.
ConnectExhausted(cc) == cc >= connection_retries

\* A variant that reports the error of the attempt before the last one, when there is one.
ErrorText_stale(e) == IF lastConnErr # "none" THEN lastConnErr ELSE e

\* e.to_string() of the error the current connect attempt returned.
ErrorText(e) == e

\* build returns r.
Finish(r, text) ==
    /\ bpc' = "done"
    /\ bresult' = r
    /\ errText' = text

ManagerNew ==
    /\ bpc = "manager"
    /\ prev' = "manager_new"
    /\ \E ok \in BOOLEAN :
         IF ok
         THEN /\ bpc' = "adapters"
              /\ UNCHANGED <<bresult, errText, envFailed>>
         ELSE /\ Finish("BluetoothManagerError", "err")
              /\ envFailed' = TRUE
    /\ UNCHANGED <<scanPos, concVars, prevConnErr, connectedTo, discOn, discAnswer, noAdapter,
                   cmdVars, scan_retries, connection_retries, find_count,
                   connect_count, light, seen, pending, handle,
                   nAdapters, nStartScan, nScan, nScanWaits, nStopScan, nConnect,
                   nConnWaits, nDiscover, firstVisible, scanErrAt, stopFailed,
                   lastConnErr>>

\* A variant of get_central that asks for the adapters again when there is none.
GetCentral_retry ==
    /\ bpc = "adapters"
    /\ prev' = "adapters"
    /\ nAdapters' = nAdapters + 1
    /\ \E answer \in {"err", "empty", "some"} :
         /\ noAdapter' = (noAdapter \/ answer = "empty")
         /\ CASE answer = "err" ->
                   /\ Finish("BluetoothManagerError", "err")
                   /\ envFailed' = TRUE
              [] answer = "empty" ->
                   /\ bpc' = "adapters"
                   /\ envFailed' = TRUE
                   /\ UNCHANGED <<bresult, errText>>
              [] answer = "some" ->
                   /\ bpc' = "start_scan"
                   /\ UNCHANGED <<bresult, errText, envFailed>>
    /\ UNCHANGED <<scanPos, concVars, prevConnErr, connectedTo, discOn, discAnswer,
                   cmdVars, scan_retries, connection_retries, find_count,
                   connect_count, light, seen, pending, handle,
                   nStartScan, nScan, nScanWaits, nStopScan, nConnect,
                   nConnWaits, nDiscover, firstVisible, scanErrAt, stopFailed,
                   lastConnErr>>

\* get_central: manager.adapters() fails, is empty, or has a first adapter.
GetCentral ==
    /\ bpc = "adapters"
    /\ prev' = "adapters"
    /\ nAdapters' = nAdapters + 1
    /\ \E answer \in {"err", "empty", "some"} :
         /\ noAdapter' = (answer = "empty")
         /\ CASE answer = "err" ->
                   /\ Finish("BluetoothManagerError", "err")
                   /\ envFailed' = TRUE
              [] answer = "empty" ->
                   /\ Finish("NoAdaptersFound", "none")
                   /\ envFailed' = TRUE
              [] answer = "some" ->
                   /\ bpc' = "start_scan"
                   /\ UNCHANGED <<bresult, errText, envFailed>>
    /\ UNCHANGED <<scanPos, concVars, prevConnErr, connectedTo, discOn, discAnswer,
                   cmdVars, scan_retries, connection_retries, find_count,
                   connect_count, light, seen, pending, handle,
                   nStartScan, nScan, nScanWaits, nStopScan, nConnect,
                   nConnWaits, nDiscover, firstVisible, scanErrAt, stopFailed,
                   lastConnErr>>

StartScan ==
    /\ bpc = "start_scan"
    /\ prev' = "start_scan"
    /\ nStartScan' = nStartScan + 1
    /\ \E ok \in BOOLEAN :
         IF ok
         THEN /\ bpc' = ScanLoopHead(light, find_count)
              /\ UNCHANGED <<bresult, errText, envFailed>>
         ELSE /\ Finish("ScanError", "err")
              /\ envFailed' = TRUE
    /\ UNCHANGED <<scanPos, concVars, prevConnErr, connectedTo, discOn, discAnswer, noAdapter,
                   cmdVars, scan_retries, connection_retries, find_count,
                   connect_count, light, seen, pending, handle,
                   nAdapters, nScan, nScanWaits, nStopScan, nConnect,
                   nConnWaits, nDiscover, firstVisible, scanErrAt, stopFailed,
                   lastConnErr>>

\* find_light returned r to the scan attempt numbered n: the match on r and,
\* unless build returns, find_count += 1.
FindLightReturns(r, n) ==
    LET failed == r.tag \notin {"Ok", "DeviceNotFound"} IN
    /\ scanPos' = 0
    /\ scanErrAt' = IF scanErrAt = 0 /\ failed THEN n ELSE scanErrAt
    /\ envFailed' = (envFailed \/ failed)
    /\ IF ScanArm(r.tag) = "abort"
       THEN /\ pending' = [tag |-> r.tag, text |-> r.text]
            /\ bpc' = "stop_on_error"
            /\ UNCHANGED <<light, find_count, bresult, errText>>
       ELSE /\ light' = IF ScanArm(r.tag) = "found" THEN r.p ELSE light
            /\ \E inc \in AddU8(find_count, 1) :
                 IF inc.panic
                 THEN /\ Finish("Panic", "none")
                      /\ UNCHANGED find_count
                 ELSE /\ find_count' = inc.v
                      /\ bpc' = "scan_sleep"
                      /\ UNCHANGED <<bresult, errText>>
            /\ UNCHANGED pending

\* A scan attempt begins: find_light awaits central.peripherals().  An error
\* or an empty list makes find_light return at once; otherwise its for loop
\* is entered.
FindLight ==
    /\ bpc = "find_light"
    /\ prev' = "find_light"
    /\ nScan' = nScan + 1
    /\ \E resp \in ScanResponses :
         /\ seen' = resp.list
         /\ firstVisible' = IF firstVisible = 0 /\ Visible(resp)
                            THEN nScan + 1 ELSE firstVisible
         /\ IF ~resp.ok \/ Len(resp.list) = 0
            THEN FindLightReturns(find_light(resp), nScan + 1)
            ELSE /\ bpc' = "properties"
                 /\ scanPos' = 1
                 /\ UNCHANGED <<light, find_count, pending, bresult, errText,
                                scanErrAt, envFailed>>
    /\ UNCHANGED <<concVars, prevConnErr, connectedTo, discOn, discAnswer, noAdapter,
                   cmdVars, scan_retries, connection_retries, connect_count, handle,
                   nAdapters, nStartScan, nScanWaits, nStopScan, nConnect,
                   nConnWaits, nDiscover, stopFailed, lastConnErr>>

\* One pass of find_light's for loop: p.properties() is awaited for the
\* peripheral at scanPos; the loop goes on to the next peripheral, or
\* find_light returns.
FindLightProperties ==
    /\ bpc = "properties"
    /\ prev' = "find_light"
    /\ IF VisitPeripheral(seen, scanPos).tag = "next" /\ scanPos < Len(seen)
       THEN /\ scanPos' = scanPos + 1
            /\ UNCHANGED <<bpc, light, find_count, pending, bresult, errText,
                           scanErrAt, envFailed>>
       ELSE FindLightReturns(FindFrom(seen, scanPos), nScan)
    /\ UNCHANGED <<concVars, prevConnErr, connectedTo, discOn, discAnswer, noAdapter,
                   cmdVars, scan_retries, connection_retries, connect_count, handle,
                   seen, nAdapters, nStartScan, nScan, nScanWaits, nStopScan,
                   nConnect, nConnWaits, nDiscover, firstVisible, stopFailed,
                   lastConnErr>>

\* time::sleep(scan_interval_ms) at the end of the loop body, then the loop head.
ScanSleep ==
    /\ bpc = "scan_sleep"
    /\ prev' = "sleep_scan"
    /\ nScanWaits' = nScanWaits + 1
    /\ seen' = <<>>
    /\ bpc' = ScanLoopHead(light, find_count)
    /\ UNCHANGED <<scanPos, concVars, prevConnErr, connectedTo, discOn, discAnswer, noAdapter,
                   cmdVars, scan_retries, connection_retries, find_count,
                   connect_count, light, pending, bresult, errText, handle,
                   nAdapters, nStartScan, nScan, nStopScan, nConnect,
                   nConnWaits, nDiscover, firstVisible, scanErrAt, stopFailed,
                   envFailed, lastConnErr>>

\* find_count >= scan_retries: central.stop_scan().await.ok(), then DeviceNotFound.
StopScanExhausted ==
    /\ bpc = "stop_exhausted"
    /\ prev' = "stop_scan"
    /\ nStopScan' = nStopScan + 1
    /\ \E ok \in BOOLEAN : stopFailed' = (stopFailed \/ ~ok)
    /\ Finish("DeviceNotFound", "none")
    /\ UNCHANGED <<scanPos, concVars, prevConnErr, connectedTo, discOn, discAnswer, noAdapter,
                   cmdVars, scan_retries, connection_retries, find_count,
                   connect_count, light, seen, pending, handle,
                   nAdapters, nStartScan, nScan, nScanWaits, nConnect,
                   nConnWaits, nDiscover, firstVisible, scanErrAt,
                   envFailed, lastConnErr>>

\* Err(e) of a scan attempt: central.stop_scan().await.ok(), then Err(e).
StopScanOnError ==
    /\ bpc = "stop_on_error"
    /\ prev' = "stop_scan"
    /\ nStopScan' = nStopScan + 1
    /\ \E ok \in BOOLEAN : stopFailed' = (stopFailed \/ ~ok)
    /\ Finish(pending.tag, pending.text)
    /\ UNCHANGED <<scanPos, concVars, prevConnErr, connectedTo, discOn, discAnswer, noAdapter,
                   cmdVars, scan_retries, connection_retries, find_count,
                   connect_count, light, seen, pending, handle,
                   nAdapters, nStartScan, nScan, nScanWaits, nConnect,
                   nConnWaits, nDiscover, firstVisible, scanErrAt,
                   envFailed, lastConnErr>>

\* A variant that goes on to connect when the stop_scan after the loop fails.
StopScan_bestEffort ==
    /\ bpc = "stop_scan"
    /\ prev' = "stop_scan"
    /\ nStopScan' = nStopScan + 1
    /\ \E ok \in BOOLEAN :
         /\ stopFailed' = (stopFailed \/ ~ok)
         /\ envFailed' = (envFailed \/ ~ok)
         /\ IF light = None
            THEN Finish("DeviceNotFound", "none")
            ELSE /\ bpc' = "connect"
                 /\ UNCHANGED <<bresult, errText>>
    /\ UNCHANGED <<scanPos, concVars, prevConnErr, connectedTo, discOn, discAnswer, noAdapter,
                   cmdVars, scan_retries, connection_retries, find_count,
                   connect_count, light, seen, pending, handle,
                   nAdapters, nStartScan, nScan, nScanWaits, nConnect,
                   nConnWaits, nDiscover, firstVisible, scanErrAt, lastConnErr>>

\* After the loop: central.stop_scan() with map_err and `?`, then
\* light.clone().ok_or(DeviceNotFound)?.
StopScan ==
    /\ bpc = "stop_scan"
    /\ prev' = "stop_scan"
    /\ nStopScan' = nStopScan + 1
    /\ \E ok \in BOOLEAN :
         IF ~ok
         THEN /\ Finish("ScanError", "failed to stop scan: err")
              /\ stopFailed' = TRUE
              /\ envFailed' = TRUE
         ELSE /\ IF light = None
                 THEN Finish("DeviceNotFound", "none")
                 ELSE /\ bpc' = "connect"
                      /\ UNCHANGED <<bresult, errText>>
              /\ UNCHANGED <<stopFailed, envFailed>>
    /\ UNCHANGED <<scanPos, concVars, prevConnErr, connectedTo, discOn, discAnswer, noAdapter,
                   cmdVars, scan_retries, connection_retries, find_count,
                   connect_count, light, seen, pending, handle,
                   nAdapters, nStartScan, nScan, nScanWaits, nConnect,
                   nConnWaits, nDiscover, firstVisible, scanErrAt, lastConnErr>>

\* One pass of the connect loop: lc.connect(), and on an error the count and
\* the budget check.
Connect ==
    /\ bpc = "connect"
    /\ prev' = "connect"
    /\ nConnect' = nConnect + 1
    /\ \E answer \in {"ok"} \cup ConnErrors :
         IF answer = "ok"
         THEN /\ bpc' = "discover"
              /\ connectedTo' = light
              /\ UNCHANGED <<connect_count, bresult, errText, envFailed, lastConnErr,
                             prevConnErr>>
         ELSE /\ lastConnErr' = answer
              /\ prevConnErr' = lastConnErr
              /\ envFailed' = TRUE
              /\ UNCHANGED connectedTo
              /\ \E inc \in AddU8(connect_count, 1) :
                   IF inc.panic
                   THEN /\ Finish("Panic", "none")
                        /\ UNCHANGED connect_count
                   ELSE /\ connect_count' = inc.v
                        /\ IF ConnectExhausted(inc.v)
                           THEN Finish("ConnectionFailed", ErrorText(answer))
                           ELSE /\ bpc' = "connect_sleep"
                                /\ UNCHANGED <<bresult, errText>>
    /\ UNCHANGED <<scanPos, concVars, discOn, discAnswer, noAdapter,
                   cmdVars, scan_retries, connection_retries, find_count,
                   light, seen, pending, handle,
                   nAdapters, nStartScan, nScan, nScanWaits, nStopScan,
                   nConnWaits, nDiscover, firstVisible, scanErrAt, stopFailed>>

\* time::sleep(connection_interval_ms), then the next pass.
ConnectSleep ==
    /\ bpc = "connect_sleep"
    /\ prev' = "sleep_connect"
    /\ nConnWaits' = nConnWaits + 1
    /\ bpc' = "connect"
    /\ UNCHANGED <<scanPos, concVars, prevConnErr, connectedTo, discOn, discAnswer, noAdapter,
                   cmdVars, scan_retries, connection_retries, find_count,
                   connect_count, light, seen, pending, bresult, errText, handle,
                   nAdapters, nStartScan, nScan, nScanWaits, nStopScan, nConnect,
                   nDiscover, firstVisible, scanErrAt, stopFailed,
                   envFailed, lastConnErr>>

\* lc.discover_services(), lc.characteristics(), the search for the light
\* characteristic, and the BledomDevice.
DiscoverServices ==
    /\ bpc = "discover"
    /\ prev' = "discover_services"
    /\ nDiscover' = nDiscover + 1
    /\ discOn' = light
    /\ \E ok \in BOOLEAN, chars \in CharLists :
         /\ discAnswer' = IF ~ok THEN "err"
                          ELSE IF \E i \in 1..Len(chars) : chars[i] = 65523 THEN "char"
                          ELSE "nochar"
         /\ IF ~ok
            THEN /\ chars = <<>>
                 /\ Finish("ServiceDiscoveryError", "err")
                 /\ envFailed' = TRUE
                 /\ UNCHANGED handle
            ELSE LET cmd_char == FindChar(chars) IN
                 IF cmd_char = None
                 THEN /\ Finish("CharacteristicNotFound", "none")
                      /\ envFailed' = TRUE
                      /\ UNCHANGED handle
                 ELSE /\ Finish("Ready", "none")
                      /\ handle' = [peripheral |-> light,
                                    characteristic |-> chars[cmd_char]]
                      /\ UNCHANGED envFailed
    /\ UNCHANGED <<scanPos, concVars, prevConnErr, connectedTo, noAdapter,
                   cmdVars, scan_retries, connection_retries, find_count,
                   connect_count, light, seen, pending,
                   nAdapters, nStartScan, nScan, nScanWaits, nStopScan, nConnect,
                   nConnWaits, firstVisible, scanErrAt, stopFailed, lastConnErr>>

\* build is called on a builder with some configuration; no command is in progress.
BuildInit ==
    /\ CmdIdle
    /\ \E c \in Configs : scan_retries = c[1] /\ connection_retries = c[2]
    /\ bpc = "manager"
    /\ find_count = 0
    /\ connect_count = 0
    /\ light = None
    /\ seen = <<>>
    /\ scanPos = 0
    /\ pending = NoError
    /\ bresult = "none"
    /\ errText = "none"
    /\ handle = NoHandle
    /\ HistInit
    /\ ConcIdle

BuildNext ==
    \/ ManagerNew \/ GetCentral \/ StartScan
    \/ FindLight \/ FindLightProperties \/ ScanSleep \/ StopScanExhausted \/ StopScanOnError \/ StopScan
    \/ Connect \/ ConnectSleep \/ DiscoverServices

BuildSpec == BuildInit /\ [][BuildNext]_vars

\* build on a transport whose calls return: a step that can be taken is taken.
BuildLiveSpec == BuildSpec /\ WF_vars(BuildNext)

(***************************************************************************)
(* The documented contract of the command layer (spec sections 4.2, 6):    *)
(* the valid range of each field and the wire table, stated apart from     *)
(* the operations above.                                                   *)
(***************************************************************************)
InRange(c) ==
    CASE c.op \in {"set_brightness", "set_effect_speed"} -> c.value \in 0..100
      [] c.op = "set_custom_time" ->
            /\ c.hour \in 0..23 /\ c.minute \in 0..59 /\ c.second \in 0..59
            /\ c.day_of_week \in 1..7
      [] c.op \in {"set_schedule_on", "set_schedule_off"} ->
            c.days \in 0..127 /\ c.hours \in 0..23 /\ c.minutes \in 0..59
      [] OTHER -> TRUE

\* The call reached the transport write.
Accepted == cpc \in {"write", "settle"} \/ callWrites > 0

\* Bytes 2..8 of the frame the wire table gives for a call (not for sync_time).
TableBytes(c) ==
    CASE c.op = "power_on" -> <<0, 4, 240, 0, 1, 255, 0>>
      [] c.op = "power_off" -> <<0, 4, 0, 0, 0, 255, 0>>
      [] c.op = "set_brightness" -> <<0, 1, c.value, 0, 0, 0, 0>>
      [] c.op = "set_effect_speed" -> <<0, 2, c.value, 0, 0, 0, 0>>
      [] c.op = "set_effect" -> <<0, 3, c.value, 3, 0, 0, 0>>
      [] c.op = "set_color" -> <<0, 5, 3, c.red, c.green, c.blue, 0>>
      [] c.op = "set_custom_time" ->
            <<0, 131, c.hour, c.minute, c.second, c.day_of_week, 0>>
      [] c.op = "generic_command" -> <<0, c.id, c.sub_id, c.arg1, c.arg2, c.arg3, 0>>

IsSchedule(c) == c.op \in {"set_schedule_on", "set_schedule_off"}

(***************************************************************************)
(* C1: every frame a public operation hands to the transport write is 9    *)
(* bytes long, starts with 0x7E and ends with 0xEF, and the shape check of *)
(* send_command_bytes never rejects a frame a public operation built.      *)
(***************************************************************************)
C1_FramesWellFormed ==
    /\ ~shapeRejected
    /\ (cpc \in {"write", "settle"} =>
            Len(frame) = 9 /\ frame[1] = 126 /\ frame[9] = 239)
    /\ (wire # <<>> => Len(wire) = 9 /\ wire[1] = 126 /\ wire[9] = 239)

\* generic_command with id 0x7E and sub_id 0xEF has been written.
C1_Witness ==
    /\ cpc = "returned" /\ cresult = "Ok"
    /\ call.op = "generic_command" /\ call.id = 126 /\ call.sub_id = 239
    /\ Len(wire) = 9

(***************************************************************************)
(* C2: a call with a field out of range returns InvalidParameter having    *)
(* issued no transport write and taken no settle delay.                    *)
(***************************************************************************)
C2_RejectedNeverWrites ==
    /\ (cpc # "idle" /\ ~InRange(call)) =>
            /\ cpc = "returned" /\ cresult = "InvalidParameter"
            /\ callWrites = 0 /\ callSlept = 0 /\ wire = <<>>
    /\ cresult = "InvalidParameter" => callWrites = 0 /\ callSlept = 0 /\ wire = <<>>

\* set_custom_time with day_of_week 0 has been rejected.
C2_Witness ==
    /\ cpc = "returned" /\ cresult = "InvalidParameter"
    /\ call.op = "set_custom_time" /\ call.day_of_week = 0
    /\ call.hour = 23 /\ call.minute = 59 /\ call.second = 59
    /\ callWrites = 0

(***************************************************************************)
(* C3: a call reaches the write if and only if every field is inside its   *)
(* inclusive range, and is rejected with InvalidParameter otherwise;       *)
(* set_color, set_effect and generic_command reject nothing.               *)
(***************************************************************************)
C3_AcceptedIffInRange ==
    cpc # "idle" =>
        /\ InRange(call) <=> Accepted
        /\ ~InRange(call) <=> cresult = "InvalidParameter"
        /\ call.op \in {"set_color", "set_effect", "generic_command"} => Accepted

\* set_brightness(100) has been written and has returned Ok.
C3_Witness ==
    /\ cpc = "returned" /\ cresult = "Ok"
    /\ call.op = "set_brightness" /\ call.value = 100
    /\ callWrites = 1

(***************************************************************************)
(* C4: an accepted schedule call sends                                     *)
(* [0x7E, 0, 0x82, hour, minute, 0, sub, d, 0xEF] with sub 0 for on and 1  *)
(* for off, d = days + 0x80 when enabled and d = days when not, d never    *)
(* above 0xFF; days above 0x7F are rejected before the addition.           *)
(***************************************************************************)
C4_ScheduleFrame ==
    (cpc # "idle" /\ IsSchedule(call)) =>
        IF InRange(call)
        THEN LET d == IF call.enabled THEN call.days + 128 ELSE call.days
                 sub == IF call.op = "set_schedule_on" THEN 0 ELSE 1
             IN /\ cresult # "Panic"
                /\ d <= 255
                /\ frame = <<126, 0, 130, call.hours, call.minutes, 0, sub, d, 239>>
        ELSE cresult = "InvalidParameter" /\ frame = <<>>

\* set_schedule_on with days 0x01 enabled has written a days byte of 0x81.
C4_Witness ==
    /\ cpc = "returned" /\ cresult = "Ok"
    /\ call.op = "set_schedule_on" /\ call.days = 1 /\ call.enabled
    /\ wire[8] = 129

(***************************************************************************)
(* C5: the frame an accepted call writes is the wire table's, byte for     *)
(* byte, and a call repeated with the same arguments writes the same bytes *)
(* (sync_time, which reads the clock, apart).                              *)
(***************************************************************************)
C5_WireTable ==
    /\ (Accepted /\ ~IsSchedule(call) /\ call.op # "sync_time") =>
            frame = <<126>> \o TableBytes(call) \o <<239>>
    /\ (Accepted /\ call.op = "sync_time") =>
            /\ SubSeq(frame, 1, 3) = <<126, 0, 131>>
            /\ SubSeq(frame, 8, 9) = <<0, 239>>
    /\ wire # <<>> => wire = frame
    /\ (wire # <<>> /\ prevWire # <<>> /\ call.op # "sync_time") => wire = prevWire

\* set_color(255, 0, 0) written twice in a row.
C5_Witness ==
    /\ cpc = "returned" /\ cresult = "Ok"
    /\ call.op = "set_color" /\ call.red = 255 /\ call.green = 0 /\ call.blue = 0
    /\ wire = <<126, 0, 5, 3, 255, 0, 0, 0, 239>>
    /\ prevWire = wire

(***************************************************************************)
(* Acquisition: what a finished run of build looked like.                  *)
(***************************************************************************)
\* start_scan succeeded, so the scan loop was entered.
ScanStarted == nStartScan = 1 /\ prev # "start_scan"

(***************************************************************************)
(* C6: when no matching peripheral ever appears and no scan attempt        *)
(* returns another error, build makes exactly scan_retries scan attempts   *)
(* (calls of find_light) before it returns DeviceNotFound, and one wait of *)
(* scan_interval_ms lies between every two consecutive attempts.           *)
(***************************************************************************)
C6_ScanExhaustion ==
    /\ (bpc = "done" /\ ScanStarted /\ firstVisible = 0 /\ scanErrAt = 0) =>
            bresult = "DeviceNotFound"
    /\ bresult = "DeviceNotFound" =>
            nScan = scan_retries /\ nScanWaits = scan_retries
    /\ bpc = "find_light" => nScanWaits = nScan
    /\ bpc \in {"properties", "scan_sleep"} => nScanWaits = nScan - 1

\* DeviceNotFound after 255 attempts with scan_retries = 255.
C6_Witness ==
    /\ bpc = "done" /\ bresult = "DeviceNotFound"
    /\ scan_retries = 255 /\ nScan = 255 /\ firstVisible = 0

(***************************************************************************)
(* C7: when every connect attempt fails, build makes exactly               *)
(* connection_retries connect attempts before it returns ConnectionFailed, *)
(* for every connection_retries in 0..255 (0 included), with one wait of   *)
(* connection_interval_ms between consecutive attempts.                    *)
(***************************************************************************)
C7_ConnectExhaustion ==
    bresult = "ConnectionFailed" =>
        nConnect = connection_retries /\ nConnWaits = nConnect - 1

(***************************************************************************)
(* C8: with the default retries (10 and 10), when the target first is      *)
(* visible on the 3rd scan poll and every other transport call succeeds    *)
(* (the first connect attempt, discovery, a 0xFFF3 characteristic), build  *)
(* returns a Ready handle after exactly 3 scan attempts and 1 connect      *)
(* attempt.                                                                *)
(***************************************************************************)
C8_DefaultScenario ==
    ( /\ bpc = "done"
      /\ scan_retries = DefaultScanRetries
      /\ connection_retries = DefaultConnectionRetries
      /\ firstVisible = 3
      /\ ~envFailed ) =>
        /\ bresult = "Ready"
        /\ nScan = 3 /\ nConnect = 1
        /\ handle.peripheral = light /\ light # None
        /\ handle.characteristic = 65523

\* The scenario's run has ended.
C8_Witness ==
    /\ bpc = "done" /\ bresult = "Ready"
    /\ scan_retries = 10 /\ connection_retries = 10
    /\ firstVisible = 3 /\ ~envFailed /\ nScan = 3 /\ nConnect = 1

(***************************************************************************)
(* C9: when a scan attempt fails with an error other than DeviceNotFound,  *)
(* build returns that error at once: no further scan attempt, no wait of   *)
(* scan_interval_ms, no connect attempt and no discovery follows.          *)
(***************************************************************************)
C9_ScanErrorAborts ==
    scanErrAt # 0 =>
        /\ nScan = scanErrAt
        /\ nScanWaits = scanErrAt - 1
        /\ nConnect = 0 /\ nConnWaits = 0 /\ nDiscover = 0
        /\ bpc \in {"stop_on_error", "done"}
        /\ pending.tag \in {"BluetoothManagerError", "Other"}
        /\ bpc = "done" => bresult = pending.tag /\ errText = pending.text

\* The 2nd of 10 permitted scan attempts found a peripheral without properties.
C9_Witness ==
    /\ bpc = "done" /\ bresult = "Other"
    /\ scanErrAt = 2 /\ scan_retries = 10 /\ nScan = 2
    /\ errText = "Peripheral properties not available"

(***************************************************************************)
(* C10: after a scan attempt returns a matching peripheral, stop_scan is   *)
(* the next step (no wait of scan_interval_ms between the match and        *)
(* stop_scan), and a failure of stop_scan changes the outcome of           *)
(* acquisition on no exit path: a run never ends with the error of a       *)
(* failed stop_scan.                                                       *)
(***************************************************************************)
C10_StopScanBestEffort ==
    /\ (light # None /\ nStopScan = 0) => prev # "sleep_scan"
    /\ (bpc = "done" /\ stopFailed) =>
            ~(bresult = "ScanError" /\ prev = "stop_scan")

(***************************************************************************)
(* C11: when the connect loop is exhausted, the ConnectionFailed error     *)
(* build returns carries the transport error of the last connect attempt   *)
(* made, not that of an earlier attempt.                                   *)
(***************************************************************************)
C11_CarriesLastError ==
    bresult = "ConnectionFailed" =>
        /\ prev = "connect"
        /\ errText = lastConnErr
        /\ errText \in ConnErrors

\* The attempt before the last failed with e1, the last with e2, and e2 is carried.
C11_Witness ==
    /\ bpc = "done" /\ bresult = "ConnectionFailed"
    /\ prevConnErr = "e1" /\ lastConnErr = "e2" /\ errText = "e2"
    /\ connection_retries = 3 /\ nConnect = 3

(***************************************************************************)
(* C12: in every run of build, service discovery is triggered at most      *)
(* once and only after a connect attempt has succeeded; a discovery        *)
(* failure ends the run with ServiceDiscoveryError and a characteristic    *)
(* list without UUID 0xFFF3 ends it with CharacteristicNotFound, with no   *)
(* further connect attempt, scan attempt or discovery.                     *)
(***************************************************************************)
C12_DiscoveryOnce ==
    /\ nDiscover <= 1
    /\ nDiscover = 1 =>
            /\ connectedTo # None /\ discOn = connectedTo
            /\ bpc = "done" /\ prev = "discover_services"
    /\ discAnswer = "err" => bresult = "ServiceDiscoveryError"
    /\ discAnswer = "nochar" => bresult = "CharacteristicNotFound"
    /\ bresult \in {"ServiceDiscoveryError", "CharacteristicNotFound"} =>
            nDiscover = 1 /\ discAnswer \in {"err", "nochar"}

\* A discovery that reported characteristics, none of them 0xFFF3, ended the run.
C12_Witness ==
    /\ bpc = "done" /\ bresult = "CharacteristicNotFound"
    /\ discAnswer = "nochar" /\ nDiscover = 1 /\ nConnect = 2

(***************************************************************************)
(* C13: a command operation that passes validation issues exactly one      *)
(* transport write; after a successful write it waits the full settle      *)
(* delay (100 ms) before it returns Ok; after a failed write it returns    *)
(* the transport error and makes no second write.                          *)
(***************************************************************************)
C13_OneWriteThenSettle ==
    /\ callWrites <= 1
    /\ cpc = "write" => callWrites = 0 /\ callSlept = 0
    /\ cpc = "settle" => callWrites = 1 /\ callSlept = 0 /\ wire = frame
    /\ cresult = "Ok" => callWrites = 1 /\ callSlept = 100 /\ wire = frame
    /\ cresult = "TransportError" =>
            cpc = "returned" /\ callWrites = 1 /\ callSlept = 0 /\ wire = <<>>
    /\ (cpc = "returned" /\ InRange(call)) =>
            callWrites = 1 /\ cresult \in {"Ok", "TransportError"}

\* set_effect_speed(100): the write failed and the call returned the error.
C13_Witness ==
    /\ cpc = "returned" /\ cresult = "TransportError"
    /\ call.op = "set_effect_speed" /\ call.value = 100
    /\ callWrites = 1 /\ callSlept = 0

(***************************************************************************)
(* C14: every run of build ends with a Ready handle or with one error kind  *)
(* of the taxonomy: a transport error passed on unchanged, NoAdaptersFound, *)
(* DeviceNotFound, ConnectionFailed, ServiceDiscoveryError or               *)
(* CharacteristicNotFound, whatever the transport does.                     *)
(***************************************************************************)
C14_TaxonomyOnly ==
    bpc = "done" =>
        bresult \in {"Ready", "BluetoothManagerError", "NoAdaptersFound",
                     "DeviceNotFound", "ConnectionFailed",
                     "ServiceDiscoveryError", "CharacteristicNotFound"}

(***************************************************************************)
(* C15: when the transport reports no adapter, build returns               *)
(* NoAdaptersFound at once: the adapters were asked for once, and no        *)
(* start_scan, scan attempt, stop_scan, connect or discovery call is made.  *)
(* NoAdaptersFound is returned in no other case.                            *)
(***************************************************************************)
C15_NoAdapterIsFatal ==
    /\ noAdapter =>
          /\ bpc = "done"
          /\ bresult = "NoAdaptersFound"
          /\ prev = "adapters"
          /\ nAdapters = 1
          /\ nStartScan = 0
          /\ nScan = 0
          /\ nStopScan = 0
          /\ nConnect = 0
          /\ nDiscover = 0
    /\ bresult = "NoAdaptersFound" => noAdapter

C15_Witness ==
    /\ noAdapter
    /\ bpc = "done"
    /\ bresult = "NoAdaptersFound"
    /\ nAdapters = 1
    /\ nStartScan = 0

(***************************************************************************)
(* C16: a scan attempt whose list of visible peripherals holds a           *)
(* peripheral with a matching advertised name returns the first such       *)
(* peripheral in list order, whatever the other peripherals of the list    *)
(* are (no name, another name, no properties available).                    *)
(***************************************************************************)
MatchesAt(ps, i) == ps[i].props = "some" /\ NameMatches(ps[i])

FirstMatch(ps) ==
    CHOOSE i \in 1..Len(ps) :
        MatchesAt(ps, i) /\ \A j \in 1..(i - 1) : ~MatchesAt(ps, j)

C16_FirstMatchReturned ==
    ( /\ prev = "find_light"
      /\ bpc # "properties"
      /\ \E i \in 1..Len(seen) : MatchesAt(seen, i) ) =>
        /\ light = FirstMatch(seen)
        /\ bpc = "scan_sleep"

(***************************************************************************)
(* C17: the two loops have budgets of their own.  The number of connect    *)
(* attempts made before ConnectionFailed is fixed by connection_retries    *)
(* alone (max(1, connection_retries)), however many scan attempts the run  *)
(* made, and the number of scan attempts made before the scan budget is    *)
(* found spent is fixed by scan_retries alone; each counter counts the     *)
(* attempts of its own loop only.                                          *)
(***************************************************************************)
ConnectBudget == IF connection_retries = 0 THEN 1 ELSE connection_retries

C17_IndependentBudgets ==
    /\ bresult = "ConnectionFailed" =>
          /\ nConnect = ConnectBudget
          /\ nScan \in 1..scan_retries
    /\ nConnect <= ConnectBudget
    /\ bpc \in {"connect", "connect_sleep"} => nConnect < ConnectBudget
    /\ nScan <= scan_retries
    /\ bpc = "find_light" => nScan < scan_retries
    /\ bpc = "stop_exhausted" => nScan = scan_retries /\ nConnect = 0
    /\ find_count <= nScan
    /\ connect_count <= nConnect

C17_Witness ==
    /\ bpc = "done"
    /\ bresult = "ConnectionFailed"
    /\ scan_retries = 3
    /\ nScan = 3
    /\ firstVisible = 3
    /\ connection_retries = 3
    /\ nConnect = 3

(***************************************************************************)
(* C18: the transport calls of a run come in the order start_scan, scan    *)
(* attempts, stop_scan, connect attempts, discover_services.  No connect   *)
(* attempt is made unless a matching peripheral was located and stop_scan  *)
(* returned success, and a Ready handle is returned only if a connect      *)
(* attempt succeeded, discovery succeeded, and the bound characteristic    *)
(* has UUID 0xFFF3 and belongs to the located peripheral.                  *)
(***************************************************************************)
C18_FixedOrder ==
    /\ nStartScan <= 1
    /\ nStopScan <= 1
    /\ nScan > 0 => nStartScan = 1
    /\ nStopScan > 0 => nStartScan = 1
    /\ prev \in {"find_light", "sleep_scan"} =>
          nStopScan = 0 /\ nConnect = 0 /\ nDiscover = 0
    /\ prev = "start_scan" =>
          nScan = 0 /\ nStopScan = 0 /\ nConnect = 0 /\ nDiscover = 0
    /\ prev = "stop_scan" => nConnect = 0 /\ nDiscover = 0
    /\ (nConnect > 0 \/ bpc = "connect") =>
          /\ light # None
          /\ firstVisible > 0
          /\ nScan > 0
          /\ nStopScan = 1
          /\ ~stopFailed
    /\ prev \in {"connect", "sleep_connect"} => nDiscover = 0
    /\ nDiscover > 0 =>
          /\ nConnect > 0
          /\ connectedTo = light
          /\ discOn = light
    /\ (bpc = "done" /\ bresult = "Ready") =>
          /\ prev = "discover_services"
          /\ connectedTo = light
          /\ connectedTo # None
          /\ nDiscover = 1
          /\ discOn = light
          /\ discAnswer = "char"
          /\ handle.characteristic = 65523
          /\ handle.peripheral = light
    /\ handle # NoHandle => (bpc = "done" /\ bresult = "Ready")

C18_Witness ==
    /\ bpc = "done"
    /\ bresult = "Ready"
    /\ nStartScan = 1
    /\ nScan = 2
    /\ nStopScan = 1
    /\ nConnect = 2
    /\ nDiscover = 1
    /\ handle.characteristic = 65523
    /\ handle.peripheral = 2

(***************************************************************************)
(* C19: for every configuration and every behaviour of a transport whose   *)
(* calls return, build terminates (in Ready or an error) after at most     *)
(* scan_retries scan attempts and at most max(1, connection_retries)       *)
(* connect attempts, and the u8 counters find_count and connect_count      *)
(* never exceed 255: no addition overflows, also with a budget of 255.     *)
(***************************************************************************)
C19_Bounded ==
    /\ nScan <= scan_retries
    /\ nConnect <= ConnectBudget
    /\ nScanWaits <= nScan
    /\ nConnWaits < ConnectBudget
    /\ find_count \in 0..U8Max
    /\ connect_count \in 0..U8Max
    /\ find_count <= scan_retries
    /\ connect_count <= ConnectBudget
    /\ bresult # "Panic"
    /\ bpc = "done" => bresult # "none"

C19_Terminates == []C19_Bounded /\ <>(bpc = "done")

C19_Witness ==
    /\ bpc = "done"
    /\ bresult = "ConnectionFailed"
    /\ connection_retries = U8Max
    /\ connect_count = U8Max
    /\ nConnect = U8Max
    /\ nConnWaits = U8Max - 1

(***************************************************************************)
(* C20: a caller that uses the handle sequentially has a full settle delay *)
(* between every two of its consecutive successful writes.  The handle has *)
(* no lock: with two callers on one handle, a second write can be issued   *)
(* while the first caller's settle delay is still pending, which is a      *)
(* reachable state with two writes and no completed delay between them.    *)
(***************************************************************************)
WritesOf(c) == {i \in 1..Len(log) : log[i].ev = "write" /\ log[i].by = c}

C20_SequentialSettles ==
    \A c \in Callers :
        /\ \A i, j \in WritesOf(c) :
              i < j => \E k \in (i + 1)..(j - 1) :
                          log[k].ev = "settled" /\ log[k].by = c
        /\ tpc[c] = "settle" =>
              /\ WritesOf(c) # {}
              /\ \A k \in 1..Len(log) :
                    (log[k].ev = "settled" /\ log[k].by = c) =>
                        \E i \in WritesOf(c) : k < i
        /\ (tpc[c] = "write" /\ WritesOf(c) # {}) =>
              \E k \in 1..Len(log) :
                  /\ log[k].ev = "settled" /\ log[k].by = c
                  /\ \A i \in WritesOf(c) : i < k

C20_Witness ==
    \E i \in 1..(Len(log) - 1) :
        /\ log[i].ev = "write"
        /\ log[i + 1].ev = "write"
        /\ log[i].by # log[i + 1].by
        /\ tpc[log[i].by] = "settle"
        /\ tpc[log[i + 1].by] = "settle"

=============================================================================
